---- MODULE Spec2Model ----
(***************************************************************************)
(* The Serde type universe declared in encoder/drafts/all-types.rs and the *)
(* encoding contract its derives fix: every type derives Serialize and     *)
(* Deserialize, so its wire form is the one serde's derive produces on a    *)
(* self-describing wire model (null, boolean, number, string, ordered      *)
(* list, ordered field-map).  Values are tagged records; wire values are    *)
(* tagged records; encode and decode are recursive operators over the      *)
(* type descriptors written from the declarations.                         *)
(***************************************************************************)
EXTENDS Integers, Sequences, FiniteSets, TLC

VARIABLES pc, ty, val, enc, wire, out, val2, enc2, ins, catalog, reply

vars == <<pc, ty, val, enc, wire, out, val2, enc2, ins, catalog, reply>>

\* The second value of a compared pair, and the registry of declarations.
pairVars == <<val2, enc2, ins>>
catVars == <<catalog, reply>>

(***************************************************************************)
(* Bounds of the model.                                                    *)
(***************************************************************************)
\* Largest number of elements a constructed Vec, BTreeSet or BTreeMap holds.
MaxLen == 2
\* Deepest nesting of Message::Batch inside Message::Batch that is built.
MaxDepth == 2
\* Most surplus elements appended to a wire list handed to decode.
MaxExtra == 1

Null == [t |-> "none"]

(***************************************************************************)
(* Wire model.                                                             *)
(***************************************************************************)
WNull == [t |-> "null"]
WBool(b) == [t |-> "bool", b |-> b]
WNum(n) == [t |-> "num", n |-> n]
WFloat(f) == [t |-> "float", nan |-> f.nan, neg |-> f.neg, m |-> f.m]
WStr(s) == [t |-> "str", s |-> s]
WList(items) == [t |-> "list", items |-> items]
WMap(entries) == [t |-> "map", entries |-> entries]
Entry(k, v) == [k |-> k, v |-> v]

(***************************************************************************)
(* Type descriptors.  A primitive names its kind; width and signedness are *)
(* part of the name.  "ref" is a reference by name, used where a type       *)
(* mentions itself.                                                       *)
(***************************************************************************)
Prim(p) == [k |-> "prim", p |-> p]
UnitT == [k |-> "unit"]
OptionT(T) == [k |-> "option", of |-> T]
ResultT(T, E) == [k |-> "result", okT |-> T, errT |-> E]
VecT(T) == [k |-> "seq", of |-> T]
TupleT(elems) == [k |-> "tuple", elems |-> elems]
ArrayT(T, n) == [k |-> "array", of |-> T, len |-> n]
BTreeSet(T) == [k |-> "set", of |-> T]
BTreeMap(K, V) == [k |-> "map", key |-> K, val |-> V]
Ref(name) == [k |-> "ref", name |-> name]
Field(n, T) == [n |-> n, ty |-> T]
Variant(n, form, fields) == [n |-> n, form |-> form, fields |-> fields]

Uuid == Prim("Uuid")

UserId == [k |-> "newtype", name |-> "UserId", inner |-> Uuid]

Blob == [k |-> "newtype", name |-> "Blob", inner |-> VecT(Prim("u8"))]

Wrapped(T) == [k |-> "newtype", name |-> "Wrapped", inner |-> T]

UnitStruct == [k |-> "ustruct", name |-> "UnitStruct"]

Pair == [k |-> "tstruct", name |-> "Pair", elems |-> <<Prim("i32"), Prim("i32")>>]

External == [style |-> "external"]
Adjacent(tag, content) == [style |-> "adjacent", tag |-> tag, content |-> content]

ErrorCode ==
    [k |-> "enum", name |-> "ErrorCode", tagging |-> External,
     variants |-> << Variant("NotFound", "unit", <<>>),
                     Variant("PermissionDenied", "unit", <<>>),
                     Variant("Invalid", "newtype", <<Field("0", Prim("String"))>>) >>]

Shape ==
    [k |-> "enum", name |-> "Shape", tagging |-> Adjacent("variant", "data"),
     variants |-> << Variant("Unit", "unit", <<>>),
                     Variant("Circle", "struct", <<Field("r", Prim("f64"))>>),
                     Variant("Rect", "tuple",
                             <<Field("0", Prim("f64")), Field("1", Prim("f64"))>>),
                     Variant("Named", "newtype", <<Field("0", Prim("String"))>>) >>]

Message ==
    [k |-> "enum", name |-> "Message", tagging |-> Adjacent("variant", "data"),
     variants |-> << Variant("Ping", "unit", <<>>),
                     Variant("Text", "newtype", <<Field("0", Prim("String"))>>),
                     Variant("Batch", "newtype", <<Field("0", VecT(Ref("Message")))>>),
                     Variant("Kv", "newtype",
                             <<Field("0", BTreeMap(Prim("String"), Prim("String")))>>) >>]

Status ==
    [k |-> "struct", name |-> "Status",
     fields |-> << Field("ok", Prim("bool")),
                   Field("code", OptionT(Prim("u32"))),
                   Field("note", OptionT(Prim("String"))) >>]

AllTypes ==
    [k |-> "struct", name |-> "AllTypes",
     fields |-> <<
        Field("bool_value", Prim("bool")),
        Field("char_value", Prim("char")),
        Field("string_value", Prim("String")),
        Field("i8_value", Prim("i8")),
        Field("i16_value", Prim("i16")),
        Field("i32_value", Prim("i32")),
        Field("i64_value", Prim("i64")),
        Field("i128_value", Prim("i128")),
        Field("isize_value", Prim("isize")),
        Field("u8_value", Prim("u8")),
        Field("u16_value", Prim("u16")),
        Field("u32_value", Prim("u32")),
        Field("u64_value", Prim("u64")),
        Field("u128_value", Prim("u128")),
        Field("usize_value", Prim("usize")),
        Field("f32_value", Prim("f32")),
        Field("f64_value", Prim("f64")),
        Field("maybe_i64_value", OptionT(Prim("i64"))),
        Field("outcome_string_or_error_code", ResultT(Prim("String"), ErrorCode)),
        Field("string_vector", VecT(Prim("String"))),
        Field("mixed_tuple", TupleT(<<Prim("i32"), Prim("String"), Prim("bool")>>)),
        Field("u16_array_len_3", ArrayT(Prim("u16"), 3)),
        Field("string_set", BTreeSet(Prim("String"))),
        Field("string_to_u32_map", BTreeMap(Prim("String"), Prim("u32"))),
        Field("user_id_to_i64_map", BTreeMap(UserId, Prim("i64"))),
        Field("user_id", UserId),
        Field("blob_bytes", Blob),
        Field("wrapped_pair", Wrapped(Pair)),
        Field("shape", Shape),
        Field("message", Ref("Message")),
        Field("status", Status),
        Field("unit_value", UnitT),
        Field("unit_struct_value", UnitStruct) >>]

\* What a by-name reference stands for.
Deref(T) == IF T.k = "ref" THEN Message ELSE T

(***************************************************************************)
(* Primitive domains.                                                      *)
(***************************************************************************)
SignedInts == {"i8", "i16", "i32", "i64", "i128", "isize"}
UnsignedInts == {"u8", "u16", "u32", "u64", "u128", "usize"}
IntKinds == SignedInts \cup UnsignedInts
FloatKinds == {"f32", "f64"}

\* The model's integers are 32-bit: a width of 32 bits or more is capped at
\* the 32-bit range.
IntMax(p) ==
    CASE p = "i8" -> 127
      [] p = "u8" -> 255
      [] p = "i16" -> 32767
      [] p = "u16" -> 65535
      [] OTHER -> 2147483647

IntMin(p) ==
    CASE p \in UnsignedInts -> 0
      [] p = "i8" -> -128
      [] p = "i16" -> -32768
      [] OTHER -> -2147483647 - 1

InRange(p, n) == IntMin(p) <= n /\ n <= IntMax(p)

\* The strings of the model, in ascending order; a char is a one-character
\* string.
Strings == <<"a", "ab", "b">>
StrSet == {Strings[i] : i \in 1..Len(Strings)}
Chars == {"a", "b"}
UuidStrings == <<"u1", "u2", "u3">>
UuidSet == 1..Len(UuidStrings)

StrRank(s) == CHOOSE i \in 1..Len(Strings) : Strings[i] = s
IsUuidStr(s) == \E i \in UuidSet : UuidStrings[i] = s
ParseUuid(s) == CHOOSE i \in UuidSet : UuidStrings[i] = s

(***************************************************************************)
(* Values.                                                                 *)
(***************************************************************************)
VBool(b) == [t |-> "bool", b |-> b]
VInt(p, n) == [t |-> "int", w |-> p, n |-> n]
VChar(c) == [t |-> "char", c |-> c]
VString(s) == [t |-> "String", s |-> s]
\* A float is NaN, or (-1)^neg * m / 2.
VFloat(p, nan, neg, m) == [t |-> "float", w |-> p, nan |-> nan, neg |-> neg, m |-> m]
VUuid(u) == [t |-> "Uuid", u |-> u]
VUnit == [t |-> "unit"]
VNewtype(name, inner) == [t |-> "newtype", name |-> name, inner |-> inner]
VUnitStruct(name) == [t |-> "ustruct", name |-> name]
VTupleStruct(name, fs) == [t |-> "tstruct", name |-> name, fs |-> fs]
VStruct(name, fs) == [t |-> "struct", name |-> name, fs |-> fs]
VEnum(name, variant, fs) == [t |-> "enum", name |-> name, variant |-> variant, fs |-> fs]
VNone == [t |-> "None"]
VSome(v) == [t |-> "Some", v |-> v]
VOk(v) == [t |-> "Ok", v |-> v]
VErr(v) == [t |-> "Err", v |-> v]
VVec(items) == [t |-> "Vec", items |-> items]
VTuple(items) == [t |-> "tuple", items |-> items]
VArray(items) == [t |-> "array", items |-> items]
VSet(items) == [t |-> "BTreeSet", items |-> items]
VMap(entries) == [t |-> "BTreeMap", entries |-> entries]

(***************************************************************************)
(* Ord of the key and element types (String, Uuid, and UserId, whose        *)
(* derived Ord is its inner Uuid's), and the ordered collections.          *)
(***************************************************************************)
RECURSIVE Less(_, _)
Less(a, b) ==
    CASE a.t = "String" -> StrRank(a.s) < StrRank(b.s)
      [] a.t = "Uuid" -> a.u < b.u
      [] a.t = "newtype" -> Less(a.inner, b.inner)
      [] OTHER -> FALSE

\* Faulty variant: an insert that appends, as a Vec-backed set would.
SetAppend(items, x) ==
    IF \E i \in 1..Len(items) : items[i] = x THEN items ELSE Append(items, x)

\* BTreeSet::insert: the element takes its place in ascending order; an
\* element already present is kept once.
BTreeSetInsert(items, x) ==
    IF \E i \in 1..Len(items) : items[i] = x
    THEN items
    ELSE LET lo == SelectSeq(items, LAMBDA y : Less(y, x))
             hi == SelectSeq(items, LAMBDA y : Less(x, y))
         IN  lo \o <<x>> \o hi

\* Faulty variant: an insert that keeps insertion order, as an index map would.
MapAppend(entries, k, v) ==
    IF \E i \in 1..Len(entries) : entries[i].k = k
    THEN [i \in 1..Len(entries) |->
            IF entries[i].k = k THEN Entry(k, v) ELSE entries[i]]
    ELSE Append(entries, Entry(k, v))

\* BTreeMap::insert: the entry takes its key's place in ascending order; a
\* key already present has its value replaced.
BTreeMapInsert(entries, k, v) ==
    LET lo == SelectSeq(entries, LAMBDA e : Less(e.k, k))
        hi == SelectSeq(entries, LAMBDA e : Less(k, e.k))
    IN  lo \o <<Entry(k, v)>> \o hi

RECURSIVE SetFromSeq(_)
SetFromSeq(xs) ==
    IF xs = <<>> THEN <<>>
    ELSE BTreeSetInsert(SetFromSeq(SubSeq(xs, 1, Len(xs) - 1)), xs[Len(xs)])

RECURSIVE MapFromSeq(_)
MapFromSeq(es) ==
    IF es = <<>> THEN <<>>
    ELSE BTreeMapInsert(MapFromSeq(SubSeq(es, 1, Len(es) - 1)),
                        es[Len(es)].k, es[Len(es)].v)

(***************************************************************************)
(* Serialize, as derived.                                                  *)
(***************************************************************************)
VariantOf(T, name) == CHOOSE i \in 1..Len(T.variants) : T.variants[i].n = name
HasVariant(T, name) == \E i \in 1..Len(T.variants) : T.variants[i].n = name

\* Result<T, E> serializes as the externally tagged enum {Ok(T), Err(E)}.
ResultEnum(T) ==
    [k |-> "enum", name |-> "Result", tagging |-> External,
     variants |-> << Variant("Ok", "newtype", <<Field("0", T.okT)>>),
                     Variant("Err", "newtype", <<Field("0", T.errT)>>) >>]

RECURSIVE Enc(_, _), EncFields(_, _), EncPayload(_, _), EncEnum(_, _, _)

\* Faulty variant: a newtype written as a one-entry envelope naming it.
EncNewtypeTagged(T, w) == WMap(<<Entry(WStr(T.name), w)>>)

\* A newtype struct is its inner value's encoding, nothing around it.
EncNewtype(T, w) == w

\* Faulty variant: a field that is None is left out of the field-map.
EncFieldsSkipNone(fields, fs) ==
    LET all == [i \in 1..Len(fields) |-> Entry(WStr(fields[i].n), Enc(fields[i].ty, fs[i]))]
        keep == {i \in 1..Len(fields) : fs[i] # VNone}
        Nth(k) == CHOOSE i \in keep : Cardinality({j \in keep : j < i}) = k - 1
    IN  WMap([k \in 1..Cardinality(keep) |-> all[Nth(k)]])

\* Faulty variant: a tuple variant's payload written as a map of its positions.
EncPayloadNamed(v, fs) ==
    IF v.form = "newtype" THEN Enc(v.fields[1].ty, fs[1])
    ELSE IF v.form = "unit" THEN WNull
    ELSE EncFields(v.fields, fs)

\* A struct's fields, every one of them, by name in declared order.
EncFields(fields, fs) ==
    WMap([i \in 1..Len(fields) |-> Entry(WStr(fields[i].n), Enc(fields[i].ty, fs[i]))])

\* A variant's payload in the variant's own form.
EncPayload(v, fs) ==
    CASE v.form = "newtype" -> Enc(v.fields[1].ty, fs[1])
      [] v.form = "tuple" -> WList([i \in 1..Len(v.fields) |-> Enc(v.fields[i].ty, fs[i])])
      [] v.form = "struct" -> EncFields(v.fields, fs)
      [] OTHER -> WNull

EncEnum(T, variant, fs) ==
    LET v == T.variants[VariantOf(T, variant)] IN
    IF T.tagging.style = "adjacent"
    THEN WMap(<<Entry(WStr(T.tagging.tag), WStr(variant))>>
              \o (IF v.form = "unit" THEN <<>>
                  ELSE <<Entry(WStr(T.tagging.content), EncPayload(v, fs))>>))
    ELSE IF v.form = "unit" THEN WStr(variant)
         ELSE WMap(<<Entry(WStr(variant), EncPayload(v, fs))>>)

EncPrim(p, v) ==
    CASE p = "bool" -> WBool(v.b)
      [] p = "char" -> WStr(v.c)
      [] p = "String" -> WStr(v.s)
      [] p \in IntKinds -> WNum(v.n)
      [] p \in FloatKinds -> WFloat(v)
      [] p = "Uuid" -> WStr(UuidStrings[v.u])

Enc(T0, v) ==
    LET T == Deref(T0) IN
    CASE T.k = "prim" -> EncPrim(T.p, v)
      [] T.k = "unit" -> WNull
      [] T.k = "ustruct" -> WNull
      [] T.k = "newtype" -> EncNewtype(T, Enc(T.inner, v.inner))
      [] T.k = "tstruct" -> WList([i \in 1..Len(T.elems) |-> Enc(T.elems[i], v.fs[i])])
      [] T.k = "tuple" -> WList([i \in 1..Len(T.elems) |-> Enc(T.elems[i], v.items[i])])
      [] T.k \in {"array", "seq", "set"} ->
            WList([i \in 1..Len(v.items) |-> Enc(T.of, v.items[i])])
      [] T.k = "map" ->
            WMap([i \in 1..Len(v.entries) |->
                    Entry(Enc(T.key, v.entries[i].k), Enc(T.val, v.entries[i].v))])
      [] T.k = "struct" -> EncFields(T.fields, v.fs)
      [] T.k = "option" -> IF v.t = "None" THEN WNull ELSE Enc(T.of, v.v)
      [] T.k = "result" ->
            EncEnum(ResultEnum(T), IF v.t = "Ok" THEN "Ok" ELSE "Err", <<v.v>>)
      [] T.k = "enum" -> EncEnum(T, v.variant, v.fs)

(***************************************************************************)
(* Deserialize, as derived.  A result is Ok(value) or Fail(error); the      *)
(* first element or field at which decoding fails decides the error.       *)
(***************************************************************************)
Ok(v) == [ok |-> TRUE, v |-> v]
Fail(e) == [ok |-> FALSE, err |-> e]

\* The first failed result of a sequence of results, 0 when none failed.
FirstBad(rs) ==
    IF \E i \in 1..Len(rs) : ~rs[i].ok
    THEN CHOOSE i \in 1..Len(rs) : ~rs[i].ok /\ \A j \in 1..(i - 1) : rs[j].ok
    ELSE 0

FieldIdx(fields, s) ==
    IF \E i \in 1..Len(fields) : fields[i].n = s
    THEN CHOOSE i \in 1..Len(fields) : fields[i].n = s
    ELSE 0

\* Faulty variant: the conversion takes every width as signed.
CheckedCastSigned(p, n) ==
    /\ IntMin(p) <= n
    /\ n <= CASE p \in {"i8", "u8"} -> 127
             [] p \in {"i16", "u16"} -> 32767
             [] OTHER -> 2147483647

\* The checked conversion of a wire number to the declared integer type.
CheckedCast(p, n) == InRange(p, n)

DecPrim(p, w) ==
    CASE p = "bool" -> IF w.t = "bool" THEN Ok(VBool(w.b)) ELSE Fail("Malformed")
      [] p = "char" ->
            IF w.t = "str" /\ w.s \in Chars THEN Ok(VChar(w.s)) ELSE Fail("Malformed")
      [] p = "String" -> IF w.t = "str" THEN Ok(VString(w.s)) ELSE Fail("Malformed")
      [] p \in IntKinds ->
            IF w.t # "num" THEN Fail("Malformed")
            ELSE IF CheckedCast(p, w.n) THEN Ok(VInt(p, w.n))
            ELSE Fail("RangeOverflow")
      [] p \in FloatKinds ->
            CASE w.t = "float" -> Ok(VFloat(p, w.nan, w.neg, w.m))
              [] w.t = "num" ->
                    Ok(VFloat(p, FALSE, w.n < 0, 2 * (IF w.n < 0 THEN -w.n ELSE w.n)))
              [] OTHER -> Fail("Malformed")
      [] p = "Uuid" ->
            IF w.t = "str" /\ IsUuidStr(w.s) THEN Ok(VUuid(ParseUuid(w.s)))
            ELSE Fail("Malformed")

RECURSIVE Dec(_, _), DecElems(_, _, _), DecList(_, _), DecEntries(_, _, _),
          DecFieldMap(_, _), DecFields(_, _), DecPayload(_, _), DecVariant(_, _)

\* Faulty variant: elements past the declared length are dropped.
DecElemsTruncating(tes, items, lenErr) ==
    LET n == Len(tes)
        rs == [i \in 1..n |->
                 IF i <= Len(items) THEN Dec(tes[i], items[i]) ELSE Fail(lenErr)]
        b == FirstBad(rs)
    IN  IF b # 0 THEN rs[b] ELSE Ok([i \in 1..n |-> rs[i].v])

\* Exactly Len(tes) positional elements, each of its own type: a list that
\* ends early fails where the missing element is asked for, a list with
\* elements left over fails once the last declared element is read.
DecElems(tes, items, lenErr) ==
    LET n == Len(tes)
        rs == [i \in 1..n |->
                 IF i <= Len(items) THEN Dec(tes[i], items[i]) ELSE Fail(lenErr)]
        b == FirstBad(rs)
    IN  IF b # 0 THEN rs[b]
        ELSE IF Len(items) > n THEN Fail(lenErr)
        ELSE Ok([i \in 1..n |-> rs[i].v])

\* Any number of elements of one type.
DecList(T, items) ==
    LET rs == [i \in 1..Len(items) |-> Dec(T, items[i])]
        b == FirstBad(rs)
    IN  IF b # 0 THEN rs[b] ELSE Ok([i \in 1..Len(items) |-> rs[i].v])

\* The entries of a map, keys and values decoded in order.
DecEntries(K, V, entries) ==
    LET ks == [i \in 1..Len(entries) |-> Dec(K, entries[i].k)]
        vs == [i \in 1..Len(entries) |-> Dec(V, entries[i].v)]
        rs == [i \in 1..Len(entries) |-> IF ks[i].ok THEN vs[i] ELSE ks[i]]
        b == FirstBad(rs)
    IN  IF b # 0 THEN rs[b]
        ELSE Ok([i \in 1..Len(entries) |-> Entry(ks[i].v, vs[i].v)])

\* A struct's fields from a field-map: an unknown field is skipped, a
\* repeated field fails, and a field that is missing is None when its type
\* is Option and an error otherwise.
DecFieldMap(fields, entries) ==
    LET rs == [j \in 1..Len(entries) |->
                 LET e == entries[j] IN
                 IF e.k.t # "str" THEN Fail("Malformed")
                 ELSE IF FieldIdx(fields, e.k.s) = 0 THEN Ok(Null)
                 ELSE IF \E h \in 1..(j - 1) : entries[h].k = e.k
                      THEN Fail("DuplicateField")
                 ELSE Dec(fields[FieldIdx(fields, e.k.s)].ty, e.v)]
        b == FirstBad(rs)
        fv == [i \in 1..Len(fields) |->
                 IF \E j \in 1..Len(entries) : entries[j].k = WStr(fields[i].n)
                 THEN rs[CHOOSE j \in 1..Len(entries) : entries[j].k = WStr(fields[i].n)]
                 ELSE IF Deref(fields[i].ty).k = "option" THEN Ok(VNone)
                 ELSE Fail("MissingField")]
        m == FirstBad(fv)
    IN  IF b # 0 THEN rs[b]
        ELSE IF m # 0 THEN fv[m]
        ELSE Ok([i \in 1..Len(fields) |-> fv[i].v])

\* A struct's fields from a field-map, or positionally from a list.
DecFields(fields, w) ==
    CASE w.t = "map" -> DecFieldMap(fields, w.entries)
      [] w.t = "list" ->
            DecElems([i \in 1..Len(fields) |-> fields[i].ty], w.items, "LengthMismatch")
      [] OTHER -> Fail("Malformed")

\* A variant's payload, in the variant's own form.
DecPayload(v, w) ==
    CASE v.form = "unit" -> IF w = WNull THEN Ok(<<>>) ELSE Fail("Malformed")
      [] v.form = "newtype" ->
            LET r == Dec(v.fields[1].ty, w) IN IF r.ok THEN Ok(<<r.v>>) ELSE r
      [] v.form = "tuple" ->
            IF w.t = "list"
            THEN DecElems([i \in 1..Len(v.fields) |-> v.fields[i].ty], w.items,
                          "ArityMismatch")
            ELSE Fail("Malformed")
      [] v.form = "struct" -> DecFields(v.fields, w)

\* Faulty variant: a missing content field is an error for every variant.
DecMissingStrict(v) == Fail("MissingField")

\* A variant whose content field is missing.
DecMissingPayload(v) ==
    CASE v.form = "unit" -> Ok(<<>>)
      [] v.form = "newtype" ->
            IF Deref(v.fields[1].ty).k = "option" THEN Ok(<<VNone>>)
            ELSE Fail("MissingField")
      [] OTHER -> Fail("MissingField")

\* An enum's variant name and payload values.
DecVariant(T, w) ==
    LET Found(name, r) == IF r.ok THEN Ok([variant |-> name, fs |-> r.v]) ELSE r IN
    IF T.tagging.style = "external"
    THEN CASE w.t = "str" ->
                IF ~HasVariant(T, w.s) THEN Fail("UnknownVariant")
                ELSE IF T.variants[VariantOf(T, w.s)].form = "unit"
                     THEN Ok([variant |-> w.s, fs |-> <<>>])
                ELSE Fail("Malformed")
           [] w.t = "map" ->
                IF Len(w.entries) # 1 \/ w.entries[1].k.t # "str" THEN Fail("Malformed")
                ELSE IF ~HasVariant(T, w.entries[1].k.s) THEN Fail("UnknownVariant")
                ELSE Found(w.entries[1].k.s,
                           DecPayload(T.variants[VariantOf(T, w.entries[1].k.s)],
                                      w.entries[1].v))
           [] OTHER -> Fail("Malformed")
    ELSE CASE w.t = "map" ->
                LET es == w.entries
                    tags == {j \in 1..Len(es) : es[j].k = WStr(T.tagging.tag)}
                    conts == {j \in 1..Len(es) : es[j].k = WStr(T.tagging.content)}
                    tv == es[CHOOSE j \in tags : TRUE].v
                IN  IF \E j \in 1..Len(es) : es[j].k.t # "str" THEN Fail("Malformed")
                    ELSE IF Cardinality(tags) > 1 \/ Cardinality(conts) > 1
                         THEN Fail("DuplicateField")
                    ELSE IF tags = {} THEN Fail("MissingField")
                    ELSE IF tv.t # "str" THEN Fail("Malformed")
                    ELSE IF ~HasVariant(T, tv.s) THEN Fail("UnknownVariant")
                    ELSE IF conts = {}
                         THEN Found(tv.s, DecMissingPayload(T.variants[VariantOf(T, tv.s)]))
                    ELSE Found(tv.s, DecPayload(T.variants[VariantOf(T, tv.s)],
                                                es[CHOOSE j \in conts : TRUE].v))
           [] w.t = "list" ->
                IF Len(w.items) # 2 THEN Fail("LengthMismatch")
                ELSE IF w.items[1].t # "str" THEN Fail("Malformed")
                ELSE IF ~HasVariant(T, w.items[1].s) THEN Fail("UnknownVariant")
                ELSE Found(w.items[1].s,
                           DecPayload(T.variants[VariantOf(T, w.items[1].s)], w.items[2]))
           [] OTHER -> Fail("Malformed")

Dec(T0, w) ==
    LET T == Deref(T0) IN
    CASE T.k = "prim" -> DecPrim(T.p, w)
      [] T.k \in {"unit", "ustruct"} ->
            IF w # WNull THEN Fail("Malformed")
            ELSE IF T.k = "unit" THEN Ok(VUnit) ELSE Ok(VUnitStruct(T.name))
      [] T.k = "newtype" ->
            LET r == Dec(T.inner, w) IN IF r.ok THEN Ok(VNewtype(T.name, r.v)) ELSE r
      [] T.k = "tstruct" ->
            IF w.t # "list" THEN Fail("Malformed")
            ELSE LET r == DecElems(T.elems, w.items, "ArityMismatch")
                 IN  IF r.ok THEN Ok(VTupleStruct(T.name, r.v)) ELSE r
      [] T.k = "tuple" ->
            IF w.t # "list" THEN Fail("Malformed")
            ELSE LET r == DecElems(T.elems, w.items, "ArityMismatch")
                 IN  IF r.ok THEN Ok(VTuple(r.v)) ELSE r
      [] T.k = "array" ->
            IF w.t # "list" THEN Fail("Malformed")
            ELSE LET r == DecElems([i \in 1..T.len |-> T.of], w.items, "LengthMismatch")
                 IN  IF r.ok THEN Ok(VArray(r.v)) ELSE r
      [] T.k = "seq" ->
            IF w.t # "list" THEN Fail("Malformed")
            ELSE LET r == DecList(T.of, w.items)
                 IN  IF r.ok THEN Ok(VVec(r.v)) ELSE r
      [] T.k = "set" ->
            IF w.t # "list" THEN Fail("Malformed")
            ELSE LET r == DecList(T.of, w.items)
                 IN  IF r.ok THEN Ok(VSet(SetFromSeq(r.v))) ELSE r
      [] T.k = "map" ->
            IF w.t # "map" THEN Fail("Malformed")
            ELSE LET r == DecEntries(T.key, T.val, w.entries)
                 IN  IF r.ok THEN Ok(VMap(MapFromSeq(r.v))) ELSE r
      [] T.k = "struct" ->
            LET r == DecFields(T.fields, w)
            IN  IF r.ok THEN Ok(VStruct(T.name, r.v)) ELSE r
      [] T.k = "option" ->
            IF w = WNull THEN Ok(VNone)
            ELSE LET r == Dec(T.of, w) IN IF r.ok THEN Ok(VSome(r.v)) ELSE r
      [] T.k = "result" ->
            LET r == DecVariant(ResultEnum(T), w)
            IN  IF ~r.ok THEN r
                ELSE IF r.v.variant = "Ok" THEN Ok(VOk(r.v.fs[1]))
                ELSE Ok(VErr(r.v.fs[1]))
      [] T.k = "enum" ->
            LET r == DecVariant(T, w)
            IN  IF r.ok THEN Ok(VEnum(T.name, r.v.variant, r.v.fs)) ELSE r

(***************************************************************************)
(* Equality of values, as derived (PartialEq): field by field, element by  *)
(* element, and on floats the IEEE comparison, under which NaN equals       *)
(* nothing and the two zeros equal each other.                             *)
(***************************************************************************)
Children(v) ==
    CASE v.t = "newtype" -> <<v.inner>>
      [] v.t \in {"tstruct", "struct", "enum"} -> v.fs
      [] v.t \in {"Some", "Ok", "Err"} -> <<v.v>>
      [] v.t \in {"Vec", "tuple", "array", "BTreeSet"} -> v.items
      [] v.t = "BTreeMap" ->
            [i \in 1..(2 * Len(v.entries)) |->
                IF i % 2 = 1 THEN v.entries[(i + 1) \div 2].k ELSE v.entries[i \div 2].v]
      [] OTHER -> <<>>

\* What two composite values must share before their parts are compared.
Shell(v) ==
    [t |-> v.t,
     name |-> IF v.t \in {"newtype", "tstruct", "struct", "enum", "ustruct"}
              THEN v.name ELSE "",
     variant |-> IF v.t = "enum" THEN v.variant ELSE "",
     n |-> Len(Children(v))]

FloatEq(a, b) == ~a.nan /\ ~b.nan /\ a.m = b.m /\ (a.m = 0 \/ a.neg = b.neg)

RECURSIVE Eq(_, _)
Eq(a, b) ==
    CASE a.t = "float" -> b.t = "float" /\ FloatEq(a, b)
      [] a.t \in {"bool", "int", "char", "String", "Uuid"} -> a = b
      [] OTHER ->
            /\ Shell(a) = Shell(b)
            /\ \A i \in 1..Len(Children(a)) : Eq(Children(a)[i], Children(b)[i])

\* No float zero of one value meets a zero of the other sign in the other.
RECURSIVE ZeroSignsAgree(_, _)
ZeroSignsAgree(a, b) ==
    IF a.t = "float"
    THEN (b.t = "float" /\ ~a.nan /\ ~b.nan /\ a.m = 0 /\ b.m = 0) => a.neg = b.neg
    ELSE \A i \in 1..Len(Children(a)) :
            i <= Len(Children(b)) => ZeroSignsAgree(Children(a)[i], Children(b)[i])

(***************************************************************************)
(* Typing: which values a declared type accepts.                           *)
(***************************************************************************)
HasPrimType(p, v) ==
    CASE p = "bool" -> v.t = "bool"
      [] p = "char" -> v.t = "char"
      [] p = "String" -> v.t = "String"
      [] p \in IntKinds -> v.t = "int" /\ v.w = p /\ InRange(p, v.n)
      [] p \in FloatKinds -> v.t = "float" /\ v.w = p
      [] p = "Uuid" -> v.t = "Uuid"

RECURSIVE HasType(_, _)
HasType(T0, v) ==
    LET T == Deref(T0)
        All(tes, xs) == Len(xs) = Len(tes) /\ \A i \in 1..Len(tes) : HasType(tes[i], xs[i])
        Each(te, xs) == \A i \in 1..Len(xs) : HasType(te, xs[i])
        Tys(fields) == [i \in 1..Len(fields) |-> fields[i].ty]
    IN
    CASE T.k = "prim" -> HasPrimType(T.p, v)
      [] T.k = "unit" -> v.t = "unit"
      [] T.k = "ustruct" -> v.t = "ustruct" /\ v.name = T.name
      [] T.k = "newtype" ->
            v.t = "newtype" /\ v.name = T.name /\ HasType(T.inner, v.inner)
      [] T.k = "tstruct" -> v.t = "tstruct" /\ v.name = T.name /\ All(T.elems, v.fs)
      [] T.k = "tuple" -> v.t = "tuple" /\ All(T.elems, v.items)
      [] T.k = "array" -> v.t = "array" /\ Len(v.items) = T.len /\ Each(T.of, v.items)
      [] T.k = "seq" -> v.t = "Vec" /\ Each(T.of, v.items)
      [] T.k = "set" -> v.t = "BTreeSet" /\ Each(T.of, v.items)
      [] T.k = "map" ->
            /\ v.t = "BTreeMap"
            /\ \A i \in 1..Len(v.entries) :
                  HasType(T.key, v.entries[i].k) /\ HasType(T.val, v.entries[i].v)
      [] T.k = "struct" -> v.t = "struct" /\ v.name = T.name /\ All(Tys(T.fields), v.fs)
      [] T.k = "option" -> v.t = "None" \/ (v.t = "Some" /\ HasType(T.of, v.v))
      [] T.k = "result" ->
            \/ v.t = "Ok" /\ HasType(T.okT, v.v)
            \/ v.t = "Err" /\ HasType(T.errT, v.v)
      [] T.k = "enum" ->
            /\ v.t = "enum" /\ v.name = T.name /\ HasVariant(T, v.variant)
            /\ All(Tys(T.variants[VariantOf(T, v.variant)].fields), v.fs)

(***************************************************************************)
(* The values the model builds of each type.                               *)
(***************************************************************************)
SeqsUpTo(S, n) == UNION {[1..k -> S] : k \in 0..n}

\* All sequences taking their i-th element from the i-th set.
RECURSIVE Prod(_)
Prod(sets) ==
    IF sets = <<>> THEN {<<>>}
    ELSE {Append(p, x) : p \in Prod(SubSeq(sets, 1, Len(sets) - 1)), x \in sets[Len(sets)]}

IntSamples(p) == {n \in {IntMin(p), -1, 0, 1, IntMax(p)} : InRange(p, n)}

FloatSamples(p) ==
    {VFloat(p, TRUE, FALSE, 0), VFloat(p, FALSE, TRUE, 0)}
        \cup {VFloat(p, FALSE, FALSE, m) : m \in {0, 5, 6, 8}}

PrimSamples(p) ==
    CASE p = "bool" -> {VBool(b) : b \in BOOLEAN}
      [] p = "char" -> {VChar(c) : c \in Chars}
      [] p = "String" -> {VString(x) : x \in StrSet}
      [] p \in IntKinds -> {VInt(p, n) : n \in IntSamples(p)}
      [] p \in FloatKinds -> FloatSamples(p)
      [] p = "Uuid" -> {VUuid(u) : u \in UuidSet}

VPing == VEnum("Message", "Ping", <<>>)
VText(x) == VEnum("Message", "Text", <<VString(x)>>)
VBatch(items) == VEnum("Message", "Batch", <<VVec(items)>>)
VKv(entries) == VEnum("Message", "Kv", <<VMap(entries)>>)

\* The messages placed inside a container.
InnerMessages == {VPing, VText("a"), VKv(<<Entry(VString("a"), VString("b"))>>)}

RECURSIVE Samples(_)
Samples(T) ==
    CASE T.k = "prim" -> PrimSamples(T.p)
      [] T.k = "unit" -> {VUnit}
      [] T.k = "ustruct" -> {VUnitStruct(T.name)}
      [] T.k = "newtype" -> {VNewtype(T.name, x) : x \in Samples(T.inner)}
      [] T.k = "tstruct" ->
            {VTupleStruct(T.name, fs) :
                fs \in Prod([i \in 1..Len(T.elems) |-> Samples(T.elems[i])])}
      [] T.k = "tuple" ->
            {VTuple(fs) : fs \in Prod([i \in 1..Len(T.elems) |-> Samples(T.elems[i])])}
      [] T.k = "array" ->
            {VArray(fs) : fs \in Prod([i \in 1..T.len |-> Samples(T.of)])}
      [] T.k = "seq" -> {VVec(xs) : xs \in SeqsUpTo(Samples(T.of), MaxLen)}
      [] T.k = "set" -> {VSet(SetFromSeq(xs)) : xs \in SeqsUpTo(Samples(T.of), MaxLen)}
      [] T.k = "map" ->
            {VMap(MapFromSeq(es)) :
                es \in SeqsUpTo({Entry(a, b) : a \in Samples(T.key), b \in Samples(T.val)},
                                MaxLen)}
      [] T.k = "struct" ->
            {VStruct(T.name, fs) :
                fs \in Prod([i \in 1..Len(T.fields) |-> Samples(T.fields[i].ty)])}
      [] T.k = "option" -> {VNone} \cup {VSome(x) : x \in Samples(T.of)}
      [] T.k = "result" ->
            {VOk(x) : x \in Samples(T.okT)} \cup {VErr(x) : x \in Samples(T.errT)}
      [] T.k = "enum" ->
            UNION {{VEnum(T.name, T.variants[i].n, fs) :
                        fs \in Prod([j \in 1..Len(T.variants[i].fields) |->
                                        Samples(T.variants[i].fields[j].ty)])} :
                   i \in 1..Len(T.variants)}
      [] T.k = "ref" -> InnerMessages

\* The types reachable from AllTypes, AllTypes itself apart.
Types ==
    {AllTypes.fields[i].ty : i \in 1..Len(AllTypes.fields)}
        \cup {Message, Uuid, Pair, ErrorCode, VecT(Prim("u8")), VecT(Ref("Message")),
              Wrapped(Prim("String")), Wrapped(UserId),
              OptionT(Prim("u32")), OptionT(Prim("String")),
              BTreeMap(Prim("String"), Prim("String"))}

\* One value of each field's type: the specimen the other AllTypes values
\* are varied from.
First(T) == CHOOSE v \in Samples(T) : TRUE
Specimen == [i \in 1..Len(AllTypes.fields) |-> First(AllTypes.fields[i].ty)]

\* How deep Message::Batch nests in a message.
RECURSIVE Depth(_)
Depth(v) ==
    IF v.variant # "Batch" THEN 0
    ELSE LET items == v.fs[1].items
             ds == {Depth(items[i]) : i \in 1..Len(items)}
         IN  1 + (IF ds = {} THEN 0 ELSE CHOOSE d \in ds : \A e \in ds : e <= d)

(***************************************************************************)
(* The wire values handed to decode: the encoder's output, and that output *)
(* with a field dropped, nulled or added, a list cut short or extended, or *)
(* its first element replaced.                                             *)
(***************************************************************************)
RemoveAt(xs, j) == SubSeq(xs, 1, j - 1) \o SubSeq(xs, j + 1, Len(xs))

AddedKeys == {"data", "zz"}

ListLengths(items) ==
    {SubSeq(items, 1, n) : n \in 0..Len(items)}
        \cup {items \o [i \in 1..n |-> WNum(0)] : n \in 1..MaxExtra}

WireInputs(e) ==
    {e, WNull}
      \cup (IF e.t # "map" THEN {}
            ELSE {WMap(RemoveAt(e.entries, j)) : j \in 1..Len(e.entries)}
                   \cup {WMap([e.entries EXCEPT ![j].v = WNull]) : j \in 1..Len(e.entries)}
                   \cup {WMap(Append(e.entries, Entry(WStr(x), WNull))) : x \in AddedKeys})
      \cup (IF e.t # "list" THEN {}
            ELSE {WList(l) : l \in ListLengths(e.items)}
                   \cup {WList([l EXCEPT ![1] = b]) :
                            l \in {x \in ListLengths(e.items) : x # <<>>},
                            b \in {WNum(70000), WStr("a")}})

(***************************************************************************)
(* Encoding and decoding one value.                                        *)
(***************************************************************************)
Init ==
    /\ pc = "idle"
    /\ ty = Null
    /\ val = Null
    /\ enc = Null
    /\ wire = Null
    /\ out = Null
    /\ val2 = Null
    /\ enc2 = Null
    /\ ins = <<<<>>, <<>>>>
    /\ catalog = <<>>
    /\ reply = Null

\* A value of one of the types is constructed.
Pick ==
    /\ pc = "idle"
    /\ \E T \in Types : \E v \in Samples(T) :
          /\ ty' = T
          /\ val' = v
    /\ pc' = "valued"
    /\ UNCHANGED <<enc, wire, out, pairVars, catVars>>

\* An AllTypes value is constructed: the specimen with one field varied.
PickAllTypes ==
    /\ pc = "idle"
    /\ \E i \in 1..Len(AllTypes.fields) : \E v \in Samples(AllTypes.fields[i].ty) :
          val' = VStruct("AllTypes", [Specimen EXCEPT ![i] = v])
    /\ ty' = AllTypes
    /\ pc' = "valued"
    /\ UNCHANGED <<enc, wire, out, pairVars, catVars>>

\* A message is nested in a new Message::Batch, alone or beside another.
WrapBatch ==
    /\ pc = "valued"
    /\ ty = Message
    /\ Depth(val) < MaxDepth
    /\ \E items \in {<<val>>, <<val, VPing>>, <<VText("b"), val>>} :
          val' = VBatch(items)
    /\ UNCHANGED <<pc, ty, enc, wire, out, pairVars, catVars>>

Encode ==
    /\ pc = "valued"
    /\ enc' = Enc(ty, val)
    /\ pc' = "encoded"
    /\ UNCHANGED <<ty, val, wire, out, pairVars, catVars>>

Decode ==
    /\ pc = "encoded"
    /\ \E w \in WireInputs(enc) :
          /\ wire' = w
          /\ out' = Dec(ty, w)
    /\ pc' = "decoded"
    /\ UNCHANGED <<ty, val, enc, pairVars, catVars>>

Next == Pick \/ PickAllTypes \/ WrapBatch \/ Encode \/ Decode

Spec == Init /\ [][Next]_vars

(***************************************************************************)
(* Properties of encoding and decoding one value.                          *)
(***************************************************************************)
TypeOK ==
    /\ pc \in {"idle", "valued", "encoded", "decoded"}
    /\ pc # "idle" => HasType(ty, val)

\* C1, as stated: every value of every type encodes, and decoding its
\* encoding succeeds with a value equal to it.
RoundTripAll ==
    (pc = "decoded" /\ wire = enc) => (out.ok /\ Eq(out.v, val))

\* C1, amended: every value that is equal to itself (one holding no NaN)
\* encodes, and decoding its encoding succeeds with a value equal to it.
RoundTrip ==
    (pc = "decoded" /\ wire = enc /\ Eq(val, val)) => (out.ok /\ Eq(out.v, val))

RoundTripWitness ==
    /\ pc = "decoded" /\ wire = enc /\ ty = AllTypes
    /\ val.fs[29].variant = "Rect"
    /\ out.ok /\ Eq(out.v, val)

\* C3: a newtype's encoding is its inner value's encoding, with no envelope,
\* while the newtype and its inner type stay distinct: their descriptors
\* differ and neither accepts a value of the other.
NewtypeTransparent ==
    (pc = "encoded" /\ ty.k = "newtype") =>
        /\ enc = Enc(ty.inner, val.inner)
        /\ ty # ty.inner
        /\ HasType(ty, val) /\ ~HasType(ty.inner, val)
        /\ HasType(ty.inner, val.inner) /\ ~HasType(ty, val.inner)

NewtypeWitness ==
    /\ pc = "encoded" /\ ty = Wrapped(Pair)
    /\ enc = WList(<<WNum(1), WNum(-1)>>)

IsAdjacent(T) == T.k = "enum" /\ T.tagging.style = "adjacent"
IsUnitVariant(T, v) == T.variants[VariantOf(T, v.variant)].form = "unit"
TagOnly(T, e) == SelectSeq(e.entries, LAMBDA x : x.k # WStr(T.tagging.content))
ContentOmitted(T, e) == WMap(TagOnly(T, e))
ContentNull(T, e) == WMap(Append(TagOnly(T, e), Entry(WStr(T.tagging.content), WNull)))

\* C4, as stated: every variant of an enum with a tag and a content field
\* decodes to itself when the content field is omitted and when it is null.
EnvelopeUniformAll ==
    (/\ pc = "decoded" /\ IsAdjacent(ty)
     /\ wire \in {ContentOmitted(ty, enc), ContentNull(ty, enc)})
        => (out.ok /\ out.v = val)

\* C4, amended: every unit variant of such an enum decodes to itself when
\* the content field is omitted and when it is null, and is encoded with the
\* content field omitted; a variant that carries a payload decodes in
\* neither case.
EnvelopeUniform ==
    /\ (pc \in {"encoded", "decoded"} /\ IsAdjacent(ty) /\ IsUnitVariant(ty, val))
            => enc = WMap(<<Entry(WStr(ty.tagging.tag), WStr(val.variant))>>)
    /\ (/\ pc = "decoded" /\ IsAdjacent(ty)
        /\ wire \in {ContentOmitted(ty, enc), ContentNull(ty, enc)})
            => IF IsUnitVariant(ty, val) THEN out.ok /\ out.v = val ELSE ~out.ok

EnvelopeWitness ==
    /\ pc = "decoded" /\ ty = Shape /\ val.variant = "Unit"
    /\ wire = ContentNull(ty, enc) /\ wire # enc
    /\ out.ok /\ out.v = val

IsFixed(T) == T.k \in {"array", "tstruct"}
ElemTypes(T) == IF T.k = "array" THEN [i \in 1..T.len |-> T.of] ELSE T.elems
LenErr(T) == IF T.k = "array" THEN "LengthMismatch" ELSE "ArityMismatch"
Min(a, b) == IF a < b THEN a ELSE b
Decoded(r) == IF r.t = "array" THEN r.items ELSE r.fs

\* C5, as stated: a list decodes into a fixed array (a tuple struct) only
\* when it has exactly the declared number of elements, and a list of any
\* other length fails with LengthMismatch (ArityMismatch).
FixedLengthAll ==
    (pc = "decoded" /\ IsFixed(ty) /\ wire.t = "list") =>
        /\ out.ok => Len(wire.items) = Len(ElemTypes(ty))
        /\ Len(wire.items) # Len(ElemTypes(ty)) => (~out.ok /\ out.err = LenErr(ty))

\* C5, amended: a list decodes into a fixed array (a tuple struct) only when
\* it has exactly the declared number of elements, and then element for
\* element; a list of any other length fails, never padded or cut, with
\* LengthMismatch (ArityMismatch) when the elements read before the length is
\* found wrong are valid, and with the first invalid element's error
\* otherwise.
FixedLength ==
    (pc = "decoded" /\ IsFixed(ty) /\ wire.t = "list") =>
        LET tes == ElemTypes(ty)
            n == Len(tes)
            read == [i \in 1..Min(n, Len(wire.items)) |-> Dec(tes[i], wire.items[i])]
        IN  /\ out.ok =>
                /\ Len(wire.items) = n
                /\ \A i \in 1..n : Decoded(out.v)[i] = read[i].v
            /\ Len(wire.items) # n =>
                /\ ~out.ok
                /\ IF FirstBad(read) = 0 THEN out.err = LenErr(ty)
                   ELSE out = read[FirstBad(read)]
            /\ (Len(wire.items) = n /\ FirstBad(read) = 0) => out.ok

FixedLengthWitness ==
    /\ pc = "decoded" /\ ty = ArrayT(Prim("u16"), 3)
    /\ wire.t = "list" /\ Len(wire.items) = 4
    /\ ~out.ok /\ out.err = "LengthMismatch"

IsOptionField(T, i) == T.fields[i].ty.k = "option"
HasKey(w, s) == \E j \in 1..Len(w.entries) : w.entries[j].k = WStr(s)
ValueAt(w, s) == w.entries[CHOOSE j \in 1..Len(w.entries) : w.entries[j].k = WStr(s)].v

\* C6, as stated: a struct's Option field that is None is left out of the
\* encoded field-map and never written as null; on decode a missing Option
\* field is None and a present one is Some of the decoded value.
OptionalOmittedAll ==
    (pc = "encoded" /\ ty.k = "struct") =>
        \A i \in 1..Len(ty.fields) :
            (IsOptionField(ty, i) /\ val.fs[i] = VNone) => ~HasKey(enc, ty.fields[i].n)

\* C6, amended: a struct is encoded with every field present, an Option
\* field that is None as an explicit null; on decode an Option field that
\* is missing or null is None and one that is present with a value is Some
\* of the decoded value.
OptionalAsNull ==
    /\ (pc \in {"encoded", "decoded"} /\ ty.k = "struct") =>
          /\ enc.t = "map" /\ Len(enc.entries) = Len(ty.fields)
          /\ \A i \in 1..Len(ty.fields) :
                /\ enc.entries[i].k = WStr(ty.fields[i].n)
                /\ IsOptionField(ty, i) => (val.fs[i] = VNone <=> enc.entries[i].v = WNull)
    /\ (pc = "decoded" /\ ty.k = "struct" /\ wire.t = "map") =>
          \A i \in 1..Len(ty.fields) : IsOptionField(ty, i) =>
             /\ wire = WMap(RemoveAt(enc.entries, i)) => out.ok
             /\ out.ok =>
                  out.v.fs[i] =
                     IF ~HasKey(wire, ty.fields[i].n) \/ ValueAt(wire, ty.fields[i].n) = WNull
                     THEN VNone
                     ELSE VSome(Dec(ty.fields[i].ty.of, ValueAt(wire, ty.fields[i].n)).v)

OptionalWitness ==
    /\ pc = "decoded" /\ ty = Status
    /\ val.fs[2] # VNone /\ val.fs[3] = VNone
    /\ enc.entries[3] = Entry(WStr("note"), WNull)
    /\ wire = WMap(RemoveAt(enc.entries, 2))
    /\ out.ok /\ out.v.fs[2] = VNone

PairTypes == {Prim("f64"), Prim("f32"), Shape, Status, Pair, OptionT(Prim("i64"))}

CollectionTypes ==
    {BTreeSet(Prim("String")), BTreeMap(Prim("String"), Prim("u32")),
     BTreeMap(UserId, Prim("i64"))}

\* What may be inserted into a collection of type T.
Insertable(T) ==
    IF T.k = "set" THEN Samples(T.of)
    ELSE {Entry(a, b) : a \in Samples(T.key), b \in {x \in Samples(T.val) : x.n \in {0, 1}}}

Inserted(T, v, x) ==
    IF T.k = "set" THEN VSet(BTreeSetInsert(v.items, x))
    ELSE VMap(BTreeMapInsert(v.entries, x.k, x.v))

Empty(T) == IF T.k = "set" THEN VSet(<<>>) ELSE VMap(<<>>)

PickTwo ==
    /\ pc = "idle"
    /\ \E T \in PairTypes : \E a \in Samples(T) : \E b \in Samples(T) :
          /\ ty' = T
          /\ val' = a
          /\ val2' = b
    /\ pc' = "valued"
    /\ UNCHANGED <<enc, wire, out, enc2, ins, catVars>>

NewCollections ==
    /\ pc = "idle"
    /\ \E T \in CollectionTypes :
          /\ ty' = T
          /\ val' = Empty(T)
          /\ val2' = Empty(T)
    /\ pc' = "valued"
    /\ UNCHANGED <<enc, wire, out, enc2, ins, catVars>>

InsertFirst ==
    /\ pc = "valued"
    /\ ty \in CollectionTypes
    /\ Len(ins[1]) < MaxLen
    /\ \E x \in Insertable(ty) :
          /\ val' = Inserted(ty, val, x)
          /\ ins' = <<Append(ins[1], x), ins[2]>>
    /\ UNCHANGED <<pc, ty, enc, wire, out, val2, enc2, catVars>>

InsertSecond ==
    /\ pc = "valued"
    /\ ty \in CollectionTypes
    /\ Len(ins[2]) < MaxLen
    /\ \E x \in Insertable(ty) :
          /\ val2' = Inserted(ty, val2, x)
          /\ ins' = <<ins[1], Append(ins[2], x)>>
    /\ UNCHANGED <<pc, ty, val, enc, wire, out, enc2, catVars>>

EncodeBoth ==
    /\ pc = "valued"
    /\ enc' = Enc(ty, val)
    /\ enc2' = Enc(ty, val2)
    /\ pc' = "encoded"
    /\ UNCHANGED <<ty, val, wire, out, val2, ins, catVars>>

NextPair == PickTwo \/ NewCollections \/ InsertFirst \/ InsertSecond \/ EncodeBoth

SpecPair == Init /\ [][NextPair]_vars

\* What a sequence of insertions leaves in a collection: the elements of a
\* set, and for a map each key with the value inserted for it last.
Content(T, log) ==
    IF T.k = "set" THEN {log[i] : i \in 1..Len(log)}
    ELSE {log[i] : i \in {j \in 1..Len(log) :
                            \A h \in (j + 1)..Len(log) : log[h].k # log[j].k}}

\* C2, as stated: two values of a type that are equal under the type's
\* equality have the same encoding.
DeterministicAll ==
    (pc = "encoded" /\ Eq(val, val2)) => enc = enc2

\* C2, amended: two values of a type that are equal under the type's
\* equality, and in which no floating-point zero differs in sign, have the
\* same encoding; two sets or maps holding the same elements or entries have
\* the same encoding whatever the order they were inserted in.
Deterministic ==
    /\ (pc = "encoded" /\ Eq(val, val2) /\ ZeroSignsAgree(val, val2)) => enc = enc2
    /\ (pc = "encoded" /\ ty \in CollectionTypes
            /\ Content(ty, ins[1]) = Content(ty, ins[2]))
          => (Eq(val, val2) /\ enc = enc2)

DeterministicWitness ==
    /\ pc = "encoded" /\ ty = BTreeSet(Prim("String"))
    /\ ins[1] = <<VString("b"), VString("a")>>
    /\ ins[2] = <<VString("a"), VString("b")>>
    /\ enc = enc2

\* C7, as stated: a map is encoded as a list of [key, value] pairs, never as
\* a field-map, the pairs in strictly ascending key order whatever the order
\* of insertion.
MapAsPairListAll ==
    (pc = "encoded" /\ ty.k = "map") =>
        /\ enc.t = "list"
        /\ \A i \in 1..Len(enc.items) : enc.items[i].t = "list" /\ Len(enc.items[i].items) = 2

WireKey(T, e) == Dec(T.key, e.k).v

\* C7, amended: a map, also one whose keys are not strings, is encoded as
\* the wire's map of encoded key to encoded value, not as a list of pairs,
\* one entry per key, the entries in strictly ascending order of the key
\* type's order whatever the order of insertion.
MapCanonical ==
    (pc = "encoded" /\ ty.k = "map") =>
        /\ enc.t = "map"
        /\ \A i \in 1..(Len(enc.entries) - 1) :
              Less(WireKey(ty, enc.entries[i]), WireKey(ty, enc.entries[i + 1]))
        /\ {Entry(WireKey(ty, enc.entries[i]), Dec(ty.val, enc.entries[i].v).v) :
               i \in 1..Len(enc.entries)} = Content(ty, ins[1])

MapCanonicalWitness ==
    /\ pc = "encoded" /\ ty = BTreeMap(UserId, Prim("i64"))
    /\ Len(ins[1]) = 2
    /\ ins[1][1].k = VNewtype("UserId", VUuid(2))
    /\ ins[1][2].k = VNewtype("UserId", VUuid(1))
    /\ enc.t = "map"
    /\ <<enc.entries[1].k, enc.entries[2].k>> = <<WStr("u1"), WStr("u2")>>

(***************************************************************************)
(* The catalog of declarations: register adds a declaration under its      *)
(* name, resolve looks a name up, and values of resolved types are encoded *)
(* and decoded.  The catalog is a function from names to descriptors.      *)
(***************************************************************************)
Decl(name, body) == [name |-> name, body |-> body]

PairWide ==
    [k |-> "tstruct", name |-> "Pair", elems |-> <<Prim("i64"), Prim("i64")>>]

\* Recursive declarations: Tree through an Option, Node directly, Link
\* directly inside a tuple.
Tree ==
    [k |-> "struct", name |-> "Tree",
     fields |-> <<Field("value", Prim("i32")), Field("left", OptionT(Ref("Tree")))>>]

Node ==
    [k |-> "struct", name |-> "Node",
     fields |-> <<Field("value", Prim("i32")), Field("next", Ref("Node"))>>]

Link ==
    [k |-> "struct", name |-> "Link",
     fields |-> <<Field("cell", TupleT(<<Ref("Pair"), Ref("Link")>>))>>]

Holder == [k |-> "newtype", name |-> "Holder", inner |-> VecT(Ref("Pair"))]

Orphan == [k |-> "newtype", name |-> "Orphan", inner |-> Ref("Missing")]

Declarations ==
    {Decl("Pair", Pair), Decl("Pair", PairWide), Decl("Message", Message),
     Decl("Tree", Tree), Decl("Node", Node), Decl("Link", Link),
     Decl("Holder", Holder), Decl("Orphan", Orphan)}

Names == {d.name : d \in Declarations} \cup {"Missing"}

RECURSIVE RefsOf(_, _)

\* Faulty variant: no container or Option counted as a boundary.
RefsOfUnguarded(T, guarded) ==
    CASE T.k = "ref" -> {[name |-> T.name, guarded |-> FALSE]}
      [] T.k \in {"option", "seq", "set", "array", "newtype"} ->
            RefsOf(IF T.k = "newtype" THEN T.inner ELSE T.of, FALSE)
      [] T.k = "map" -> RefsOf(T.key, FALSE) \cup RefsOf(T.val, FALSE)
      [] T.k = "result" -> RefsOf(T.okT, FALSE) \cup RefsOf(T.errT, FALSE)
      [] T.k \in {"tuple", "tstruct"} ->
            UNION {RefsOf(T.elems[i], FALSE) : i \in 1..Len(T.elems)}
      [] T.k = "struct" ->
            UNION {RefsOf(T.fields[i].ty, FALSE) : i \in 1..Len(T.fields)}
      [] T.k = "enum" ->
            UNION {UNION {RefsOf(T.variants[i].fields[j].ty, FALSE) :
                             j \in 1..Len(T.variants[i].fields)} :
                      i \in 1..Len(T.variants)}
      [] OTHER -> {}

\* The references a descriptor makes by name, each with whether a container
\* or Option boundary lies between the descriptor and the reference.
RefsOf(T, guarded) ==
    CASE T.k = "ref" -> {[name |-> T.name, guarded |-> guarded]}
      [] T.k \in {"option", "seq", "set", "array"} -> RefsOf(T.of, TRUE)
      [] T.k = "map" -> RefsOf(T.key, TRUE) \cup RefsOf(T.val, TRUE)
      [] T.k = "result" -> RefsOf(T.okT, guarded) \cup RefsOf(T.errT, guarded)
      [] T.k = "newtype" -> RefsOf(T.inner, guarded)
      [] T.k \in {"tuple", "tstruct"} ->
            UNION {RefsOf(T.elems[i], guarded) : i \in 1..Len(T.elems)}
      [] T.k = "struct" ->
            UNION {RefsOf(T.fields[i].ty, guarded) : i \in 1..Len(T.fields)}
      [] T.k = "enum" ->
            UNION {UNION {RefsOf(T.variants[i].fields[j].ty, guarded) :
                             j \in 1..Len(T.variants[i].fields)} :
                      i \in 1..Len(T.variants)}
      [] OTHER -> {}

\* The names a registered name refers to with no boundary in between.
DirectRefs(cat, n) ==
    IF n \in DOMAIN cat
    THEN {e.name : e \in {x \in RefsOf(cat[n], FALSE) : ~x.guarded}}
    ELSE {}

RECURSIVE Visit(_, _, _, _)
\* Depth-first traversal from the names in todo along direct references:
\* TRUE when it comes back to target.
Visit(cat, todo, seen, target) ==
    IF todo = {} THEN FALSE
    ELSE LET n == CHOOSE x \in todo : TRUE
             next == DirectRefs(cat, n)
         IN  IF target \in next THEN TRUE
             ELSE Visit(cat, (todo \cup next) \ (seen \cup {n}), seen \cup {n}, target)

UnguardedRecursion(cat, n) == Visit(cat, {n}, {}, n)

RegisterResult(cat, d) ==
    CASE d.name \in DOMAIN cat -> "DuplicateName"
      [] \E e \in RefsOf(d.body, FALSE) : e.name \notin DOMAIN cat \cup {d.name} ->
            "UnknownReferencedType"
      [] UnguardedRecursion((d.name :> d.body) @@ cat, d.name) -> "UnguardedRecursion"
      [] OTHER -> "ok"

\* Faulty variant: a declaration replaces the entry of the same name.
RegisterUpsert ==
    /\ pc = "idle"
    /\ \E d \in Declarations :
          /\ catalog' = (d.name :> d.body) @@ catalog
          /\ reply' = [op |-> "register", decl |-> d, res |-> "ok"]
    /\ UNCHANGED <<pc, ty, val, enc, wire, out, pairVars>>

Register ==
    /\ pc = "idle"
    /\ \E d \in Declarations :
          LET res == RegisterResult(catalog, d)
          IN  /\ catalog' = IF res = "ok" THEN (d.name :> d.body) @@ catalog ELSE catalog
              /\ reply' = [op |-> "register", decl |-> d, res |-> res]
    /\ UNCHANGED <<pc, ty, val, enc, wire, out, pairVars>>

Resolve ==
    /\ pc = "idle"
    /\ \E n \in Names :
          reply' = IF n \in DOMAIN catalog
                   THEN [op |-> "resolve", name |-> n, res |-> "ok", body |-> catalog[n]]
                   ELSE [op |-> "resolve", name |-> n, res |-> "UnknownName"]
    /\ UNCHANGED <<pc, ty, val, enc, wire, out, pairVars, catalog>>

\* A value of the type just resolved is constructed.
PickResolved ==
    /\ pc = "idle"
    /\ reply # Null /\ reply.op = "resolve" /\ reply.res = "ok"
    /\ reply.body \in Types
    /\ ty' = reply.body
    /\ \E v \in Samples(reply.body) : val' = v
    /\ pc' = "valued"
    /\ UNCHANGED <<enc, wire, out, pairVars, catVars>>

NextCatalog == Register \/ Resolve \/ PickResolved \/ WrapBatch \/ Encode \/ Decode

SpecCatalog == Init /\ [][NextCatalog]_vars

\* A cycle of direct references among the entries of cat: names n1 .. nk,
\* each referring to the next with no boundary in between, the last to the
\* first.
HasDirectCycle(cat) ==
    \E k \in 1..Cardinality(DOMAIN cat) : \E path \in [1..k -> DOMAIN cat] :
        \A i \in 1..k :
            \E e \in RefsOf(cat[path[i]], FALSE) :
                ~e.guarded /\ e.name = path[(i % k) + 1]

Registered(d) == reply # Null /\ reply.op = "register" /\ reply.decl = d

AppendOnly ==
    [][/\ \A n \in DOMAIN catalog : n \in DOMAIN catalog' /\ catalog'[n] = catalog[n]
       /\ catalog' # catalog =>
            /\ reply'.op = "register" /\ reply'.res = "ok"
            /\ reply'.decl.name \notin DOMAIN catalog
            /\ catalog' = (reply'.decl.name :> reply'.decl.body) @@ catalog
       /\ (reply' # reply /\ (reply'.op = "resolve" \/ reply'.res # "ok")) =>
            catalog' = catalog
       /\ (reply' # reply /\ reply'.op = "resolve") =>
            IF reply'.name \in DOMAIN catalog
            THEN reply'.res = "ok" /\ reply'.body = catalog[reply'.name]
            ELSE reply'.res = "UnknownName"
       /\ pc' # pc => catalog' = catalog]_vars

AppendOnlyWitness ==
    /\ Registered(Decl("Pair", PairWide)) /\ reply.res = "DuplicateName"
    /\ "Pair" \in DOMAIN catalog /\ catalog["Pair"] = Pair
    /\ "Holder" \in DOMAIN catalog

====
